---- MODULE Spec2Model ----
(***************************************************************************)
(* Control flow of the browser verification scripts under                  *)
(* jules-scratch/verification: verify_all_pages.py, verify_escaping.py,    *)
(* verify_diff_highlighting.py, verify_icons.py and verify_layouts.py.     *)
(* One behaviour is one script invoked up to MaxRuns times in a row on an  *)
(* unchanged site.  Every Playwright call is one action; a call either     *)
(* returns or raises, and a raise unwinds to the handler the source puts   *)
(* around the call.                                                        *)
(***************************************************************************)
EXTENDS Integers, Sequences, FiniteSets, TLC

VARIABLES
    script,         \* the script that is run
    pc,             \* the statement about to be executed
    test,           \* the pytest test function being run ("none" in a plain script)
    pw,             \* the playwright context manager: "none", "started", "stopped"
    browser,        \* "none", "launched", "closed"
    page,           \* "none", "open"
    url,            \* the document the page shows
    hideEmpty,      \* the #hide-empty control: "checked", "unchecked", "absent"
    hideEmpty0,     \* the state the site serves the #hide-empty control in
    franceMatches,  \* elements matched by get_by_role("link", name="France")
    cantalMatches,  \* elements matched by get_by_role("link", name="Cantal")
    iconCount,      \* icon.count() of the first report list item
    ops,            \* history: every session operation attempted, <<name, "ok"|"raised">>
    out,            \* what was printed, <<kind, text>>
    files,          \* the checkpoint files on disk
    written,        \* the checkpoint files written by this run
    exc,            \* the exception that is propagating ("none" or the step that raised)
    caught,         \* the exception bound to e in the except clause
    closeCalls,     \* the number of browser.close() calls made
    exitStatus,     \* the exit status of the process, -1 while it runs
    results,        \* the result of each pytest test function
    run,            \* the number of this invocation of the script, from 1
    past,           \* history: what each finished invocation ended with
    observed        \* what the site answered so far, <<step, "ok"|"raised">>

vars == <<script, pc, test, pw, browser, page, url, hideEmpty, hideEmpty0,
          franceMatches, cantalMatches, iconCount, ops, out, files, written, exc,
          caught, closeCalls, exitStatus, results, run, past, observed>>

site == <<script, hideEmpty0, franceMatches, cantalMatches, iconCount>>

runs == <<run, past>>

\* The largest number of invocations of the script in a row.
MaxRuns == 2

\* The largest number of elements a link locator is let to match.
MaxMatches == 2

\* timeout=10000 of the two page.wait_for_selector calls.
SelectorTimeoutMs == 10000

\* page.wait_for_timeout(500)
SettleMs == 500

Scripts == {"all_pages", "diff", "escaping", "icons", "layouts"}

PytestScripts == {"icons", "layouts"}

Tests == {"test_report_page_with_icons", "test_country_page_layout",
          "test_division_page_layout"}

\* The statements of verify_all_pages.main inside its try block.
TryBody == {"goto_main", "expect_main", "shot_main",
            "click_france", "wait_url_france", "expect_country", "shot_country",
            "wait_hide_empty", "is_checked", "uncheck", "settle",
            "wait_link", "click_cantal", "wait_url_cantal", "expect_report",
            "shot_report"}

MainPhase == {"goto_main", "expect_main", "shot_main"}

CountryPhase == {"click_france", "wait_url_france", "expect_country", "shot_country"}

ReportPhase == TryBody \ (MainPhase \cup CountryPhase)

\* Whether the wait of a step is bounded: a timeout of 0 would disable it; a
\* call that passes no timeout waits with the library's default, which is
\* bounded.
Bounded(step) ==
    IF step \in {"wait_hide_empty", "wait_link"} THEN SelectorTimeoutMs > 0
    ELSE IF step = "settle" THEN SettleMs > 0
    ELSE TRUE

\* A call returns only when its condition is met, and gives up (raises) only
\* when its wait is bounded.
Outcome(ok, cond, step) ==
    /\ ok => cond
    /\ ~ok => Bounded(step)

\* A click that takes the first of several matches.
ClickFirstMatch(matches) == matches >= 1

\* Locator.click() acts on the element only when the locator resolves to
\* exactly one element (strict mode); it raises otherwise.
ClickResolves(matches) == matches = 1

\* page.wait_for_selector(sel, state='visible') can return only when the
\* element exists.
SelectorPresent(control) == control # "absent"

\* An uncheck made whatever page.is_checked answered.
UncheckAlways(control) == TRUE

\* if await page.is_checked('#hide-empty'): the uncheck and the settle wait are
\* made only for a checked control.
NeedsUncheck(control) == control = "checked"

\* A try block that falls into its handler when it completes.
AfterTryBodyIntoHandler == "except"

\* Where control goes when the try block completes: past the except clause,
\* to the finally clause.
AfterTryBody == "finally"

\* A wait_for_url that returns on any page.
UrlMatchesAny(current, wanted) == TRUE

\* page.wait_for_url(pattern) can return only when the page is at the pattern.
UrlMatches(current, wanted) == current = wanted

\* A failed wait for the subdivision link that is swallowed: the run goes on
\* to the click.
UnwindSwallowsWaitLink(s, step) ==
    IF s = "all_pages" /\ step = "wait_link" THEN "click_cantal"
    ELSE IF s = "all_pages" /\ step \in TryBody THEN "except"
    ELSE IF s = "all_pages" /\ step = "shot_error" THEN "finally"
    ELSE IF s \in PytestScripts THEN "test_end"
    ELSE "exit_with"

\* One try block per phase: a failure in a phase goes on with the next phase.
UnwindPerPhase(s, step) ==
    IF s = "all_pages" /\ step \in MainPhase THEN "click_france"
    ELSE IF s = "all_pages" /\ step \in CountryPhase THEN "wait_hide_empty"
    ELSE IF s = "all_pages" /\ step \in TryBody THEN "except"
    ELSE IF s = "all_pages" /\ step = "shot_error" THEN "finally"
    ELSE IF s \in PytestScripts THEN "test_end"
    ELSE "exit_with"

\* A try block that starts before the page is created.
UnwindNewPageInTry(s, step) ==
    IF s = "all_pages" /\ step \in TryBody \cup {"new_page"} THEN "except"
    ELSE IF s = "all_pages" /\ step = "shot_error" THEN "finally"
    ELSE IF s \in PytestScripts THEN "test_end"
    ELSE "exit_with"

\* A checkpoint screenshot whose failure is ignored: the run goes on with the
\* next phase.
UnwindIgnoresCheckpointFailure(s, step) ==
    IF s = "all_pages" /\ step = "shot_main" THEN "click_france"
    ELSE IF s = "all_pages" /\ step = "shot_country" THEN "wait_hide_empty"
    ELSE IF s = "all_pages" /\ step \in TryBody THEN "except"
    ELSE IF s = "all_pages" /\ step = "shot_error" THEN "finally"
    ELSE IF s \in PytestScripts THEN "test_end"
    ELSE "exit_with"

\* Where control goes when `step` raises.
Unwind(s, step) ==
    IF s = "all_pages" /\ step \in TryBody THEN "except"
    ELSE IF s = "all_pages" /\ step = "shot_error" THEN "finally"
    ELSE IF s \in PytestScripts THEN "test_end"
    ELSE "exit_with"

\* The site is unchanged between invocations: a step the site has answered
\* before is answered the same way again.
Choices(step) ==
    IF \E o \in {"ok", "raised"} : <<step, o>> \in observed
    THEN {b \in BOOLEAN : <<step, IF b THEN "ok" ELSE "raised">> \in observed}
    ELSE BOOLEAN

Returned(step, next) ==
    /\ ops' = Append(ops, <<step, "ok">>)
    /\ pc' = next
    /\ observed' = observed \cup {<<step, "ok">>}
    /\ UNCHANGED exc

\* A click that returned; `navigated` tells whether the site then went to
\* the link's page `dest` (remembered as <<dest, "ok">>) or stayed.
Clicked(step, next, dest, navigated) ==
    /\ ops' = Append(ops, <<step, "ok">>)
    /\ pc' = next
    /\ observed' = observed \cup {<<step, "ok">>,
                                  <<dest, IF navigated THEN "ok" ELSE "raised">>}
    /\ UNCHANGED exc

Raised(step) ==
    /\ ops' = Append(ops, <<step, "raised">>)
    /\ exc' = step
    /\ pc' = Unwind(script, step)
    /\ observed' = observed \cup {<<step, "raised">>}

\* A checkpoint name with a number per invocation in it.
CheckpointPathPerRun(name, r) == <<name, r>>

\* The file a checkpoint is written to: a fixed path per checkpoint name.
CheckpointPath(name, r) == name

\* page.screenshot(path=...) has written the file, over the one that was there.
Write(name) ==
    /\ files' = files \cup {CheckpointPath(name, run)}
    /\ written' = written \cup {CheckpointPath(name, run)}

\* The statement a run starts at.
StartPc(s) ==
    IF s = "icons" THEN "icons_goto"
    ELSE IF s = "layouts" THEN "country_goto"
    ELSE "enter_with"

StartTest(s) ==
    IF s = "icons" THEN "test_report_page_with_icons"
    ELSE IF s = "layouts" THEN "test_country_page_layout"
    ELSE "none"

Say(kind, text) == out' = Append(out, <<kind, text>>)

Init ==
    /\ script \in Scripts
    /\ pc = StartPc(script)
    /\ test = StartTest(script)
    /\ pw = "none"
    /\ browser = "none"
    /\ page = IF script \in PytestScripts THEN "open" ELSE "none"
    /\ url = "blank"
    /\ hideEmpty0 \in IF script = "all_pages" THEN {"checked", "unchecked", "absent"}
                      ELSE {"absent"}
    /\ hideEmpty = hideEmpty0
    /\ franceMatches \in IF script = "all_pages" THEN 0..MaxMatches ELSE {0}
    /\ cantalMatches \in IF script = "all_pages" THEN 0..MaxMatches ELSE {0}
    /\ iconCount \in IF script = "icons" THEN {0, 1} ELSE {0}
    /\ ops = <<>>
    /\ out = <<>>
    /\ files = {}
    /\ written = {}
    /\ exc = "none"
    /\ caught = "none"
    /\ closeCalls = 0
    /\ exitStatus = -1
    /\ results = [t \in Tests |-> "none"]
    /\ run = 1
    /\ past = <<>>
    /\ observed = {}

-----------------------------------------------------------------------------
(* Session set-up, common to the three scripts that own their browser.     *)

\* with sync_playwright() as p / async with async_playwright() as p
EnterWith ==
    /\ script \notin PytestScripts /\ pc = "enter_with"
    /\ pw' = "started"
    /\ pc' = "launch"
    /\ UNCHANGED <<site, runs, test, browser, page, url, hideEmpty, ops, out, files,
                   written, exc, caught, closeCalls, exitStatus, results, observed>>

\* browser = p.chromium.launch()
Launch ==
    /\ script \notin PytestScripts /\ pc = "launch"
    /\ \E ok \in Choices("launch") :
         IF ok THEN Returned("launch", "new_page") /\ browser' = "launched"
               ELSE Raised("launch") /\ UNCHANGED browser
    /\ UNCHANGED <<site, runs, test, pw, page, url, hideEmpty, out, files, written,
                   caught, closeCalls, exitStatus, results>>

\* page = browser.new_page()
NewPage ==
    /\ script \notin PytestScripts /\ pc = "new_page"
    /\ \E ok \in Choices("new_page") :
         IF ok THEN /\ Returned("new_page",
                                IF script = "all_pages" THEN "goto_main"
                                ELSE IF script = "escaping" THEN "set_viewport"
                                ELSE "goto_file")
                    /\ page' = "open"
               ELSE Raised("new_page") /\ UNCHANGED page
    /\ UNCHANGED <<site, runs, test, pw, browser, url, hideEmpty, out, files, written,
                   caught, closeCalls, exitStatus, results>>

-----------------------------------------------------------------------------
(* verify_all_pages.main, the body of the try block.                       *)

\* print("Navigating to Main Page..."); page.goto(..., wait_until='networkidle')
GotoMain ==
    /\ script = "all_pages" /\ pc = "goto_main"
    /\ \E ok \in Choices("goto_main") :
         /\ Outcome(ok, TRUE, "goto_main")
         /\ IF ok THEN Returned("goto_main", "expect_main") /\ url' = "main"
                  ELSE Raised("goto_main") /\ UNCHANGED url
    /\ Say("info", "Navigating to Main Page...")
    /\ UNCHANGED <<site, runs, test, pw, browser, page, hideEmpty, files, written,
                   caught, closeCalls, exitStatus, results>>

\* expect(heading "OSM Phone Number Validation").to_be_visible()
ExpectMain ==
    /\ script = "all_pages" /\ pc = "expect_main"
    /\ \E ok \in Choices("expect_main") :
         /\ Outcome(ok, TRUE, "expect_main")
         /\ IF ok THEN Returned("expect_main", "shot_main")
                  ELSE Raised("expect_main")
    /\ UNCHANGED <<site, runs, test, pw, browser, page, url, hideEmpty, out, files,
                   written, caught, closeCalls, exitStatus, results>>

\* page.screenshot(path='.../01-main-page.png'); print("Screenshot of Main Page taken.")
ShotMain ==
    /\ script = "all_pages" /\ pc = "shot_main"
    /\ \E ok \in Choices("shot_main") :
         IF ok THEN /\ Returned("shot_main", "click_france")
                    /\ Write("01-main-page")
                    /\ Say("info", "Screenshot of Main Page taken.")
               ELSE Raised("shot_main") /\ UNCHANGED <<files, written, out>>
    /\ UNCHANGED <<site, runs, test, pw, browser, page, url, hideEmpty, caught,
                   closeCalls, exitStatus, results>>

\* print("Navigating to Country Page..."); page.get_by_role("link", name="France").click()
ClickFrance ==
    /\ script = "all_pages" /\ pc = "click_france"
    /\ \E ok \in Choices("click_france") :
         /\ Outcome(ok, ClickResolves(franceMatches), "click_france")
         /\ IF ok THEN \E navigated \in Choices("france") :
                            /\ Clicked("click_france", "wait_url_france", "france",
                                       navigated)
                            /\ url' = IF navigated THEN "france" ELSE url
                  ELSE Raised("click_france") /\ UNCHANGED url
    /\ Say("info", "Navigating to Country Page...")
    /\ UNCHANGED <<site, runs, test, pw, browser, page, hideEmpty, files, written,
                   caught, closeCalls, exitStatus, results>>

\* page.wait_for_url("**/france.html")
WaitUrlFrance ==
    /\ script = "all_pages" /\ pc = "wait_url_france"
    /\ \E ok \in Choices("wait_url_france") :
         /\ Outcome(ok, UrlMatches(url, "france"), "wait_url_france")
         /\ IF ok THEN Returned("wait_url_france", "expect_country")
                  ELSE Raised("wait_url_france")
    /\ UNCHANGED <<site, runs, test, pw, browser, page, url, hideEmpty, out, files,
                   written, caught, closeCalls, exitStatus, results>>

\* expect(heading "Validation des numeros de telephone OSM").to_be_visible()
ExpectCountry ==
    /\ script = "all_pages" /\ pc = "expect_country"
    /\ \E ok \in Choices("expect_country") :
         /\ Outcome(ok, TRUE, "expect_country")
         /\ IF ok THEN Returned("expect_country", "shot_country")
                  ELSE Raised("expect_country")
    /\ UNCHANGED <<site, runs, test, pw, browser, page, url, hideEmpty, out, files,
                   written, caught, closeCalls, exitStatus, results>>

\* page.screenshot(path='.../02-country-page.png'); print("Screenshot of Country Page taken.")
ShotCountry ==
    /\ script = "all_pages" /\ pc = "shot_country"
    /\ \E ok \in Choices("shot_country") :
         IF ok THEN /\ Returned("shot_country", "wait_hide_empty")
                    /\ Write("02-country-page")
                    /\ Say("info", "Screenshot of Country Page taken.")
               ELSE Raised("shot_country") /\ UNCHANGED <<files, written, out>>
    /\ UNCHANGED <<site, runs, test, pw, browser, page, url, hideEmpty, caught,
                   closeCalls, exitStatus, results>>

\* print("Navigating to Report Page...");
\* page.wait_for_selector('#hide-empty', state='visible', timeout=10000)
WaitHideEmpty ==
    /\ script = "all_pages" /\ pc = "wait_hide_empty"
    /\ \E ok \in Choices("wait_hide_empty") :
         /\ Outcome(ok, SelectorPresent(hideEmpty), "wait_hide_empty")
         /\ IF ok THEN Returned("wait_hide_empty", "is_checked")
                  ELSE Raised("wait_hide_empty")
    /\ Say("info", "Navigating to Report Page...")
    /\ UNCHANGED <<site, runs, test, pw, browser, page, url, hideEmpty, files, written,
                   caught, closeCalls, exitStatus, results>>

\* if await page.is_checked('#hide-empty'):
IsChecked ==
    /\ script = "all_pages" /\ pc = "is_checked"
    /\ Returned("is_checked", IF NeedsUncheck(hideEmpty) THEN "uncheck" ELSE "wait_link")
    /\ UNCHANGED <<site, runs, test, pw, browser, page, url, hideEmpty, out, files,
                   written, caught, closeCalls, exitStatus, results>>

\* page.uncheck('#hide-empty')
Uncheck ==
    /\ script = "all_pages" /\ pc = "uncheck"
    /\ \E ok \in Choices("uncheck") :
         /\ Outcome(ok, TRUE, "uncheck")
         /\ IF ok THEN Returned("uncheck", "settle") /\ hideEmpty' = "unchecked"
                  ELSE Raised("uncheck") /\ UNCHANGED hideEmpty
    /\ UNCHANGED <<site, runs, test, pw, browser, page, url, out, files, written,
                   caught, closeCalls, exitStatus, results>>

\* page.wait_for_timeout(500)
Settle ==
    /\ script = "all_pages" /\ pc = "settle"
    /\ Bounded("settle")
    /\ Returned("settle", "wait_link")
    /\ UNCHANGED <<site, runs, test, pw, browser, page, url, hideEmpty, out, files,
                   written, caught, closeCalls, exitStatus, results>>

\* page.wait_for_selector('a[href="france/cantal.html"]', state='visible', timeout=10000)
WaitLink ==
    /\ script = "all_pages" /\ pc = "wait_link"
    /\ \E ok \in Choices("wait_link") :
         /\ Outcome(ok, cantalMatches > 0, "wait_link")
         /\ IF ok THEN Returned("wait_link", "click_cantal")
                  ELSE Raised("wait_link")
    /\ UNCHANGED <<site, runs, test, pw, browser, page, url, hideEmpty, out, files,
                   written, caught, closeCalls, exitStatus, results>>

\* page.get_by_role("link", name="Cantal").click()
ClickCantal ==
    /\ script = "all_pages" /\ pc = "click_cantal"
    /\ \E ok \in Choices("click_cantal") :
         /\ Outcome(ok, ClickResolves(cantalMatches), "click_cantal")
         /\ IF ok THEN \E navigated \in Choices("cantal") :
                            /\ Clicked("click_cantal", "wait_url_cantal", "cantal",
                                       navigated)
                            /\ url' = IF navigated THEN "cantal" ELSE url
                  ELSE Raised("click_cantal") /\ UNCHANGED url
    /\ UNCHANGED <<site, runs, test, pw, browser, page, hideEmpty, out, files, written,
                   caught, closeCalls, exitStatus, results>>

\* page.wait_for_url("**/cantal.html")
WaitUrlCantal ==
    /\ script = "all_pages" /\ pc = "wait_url_cantal"
    /\ \E ok \in Choices("wait_url_cantal") :
         /\ Outcome(ok, UrlMatches(url, "cantal"), "wait_url_cantal")
         /\ IF ok THEN Returned("wait_url_cantal", "expect_report")
                  ELSE Raised("wait_url_cantal")
    /\ UNCHANGED <<site, runs, test, pw, browser, page, url, hideEmpty, out, files,
                   written, caught, closeCalls, exitStatus, results>>

\* expect(heading "Rapport sur les numeros de telephone").to_be_visible()
ExpectReport ==
    /\ script = "all_pages" /\ pc = "expect_report"
    /\ \E ok \in Choices("expect_report") :
         /\ Outcome(ok, TRUE, "expect_report")
         /\ IF ok THEN Returned("expect_report", "shot_report")
                  ELSE Raised("expect_report")
    /\ UNCHANGED <<site, runs, test, pw, browser, page, url, hideEmpty, out, files,
                   written, caught, closeCalls, exitStatus, results>>

\* page.screenshot(path='.../03-report-page.png'); print("Screenshot of Report Page taken.")
\* print("All verification steps completed successfully.")
ShotReport ==
    /\ script = "all_pages" /\ pc = "shot_report"
    /\ \E ok \in Choices("shot_report") :
         IF ok THEN /\ Returned("shot_report", AfterTryBody)
                    /\ Write("03-report-page")
                    /\ out' = out \o << <<"info", "Screenshot of Report Page taken.">>,
                                        <<"info", "All verification steps completed successfully.">> >>
               ELSE Raised("shot_report") /\ UNCHANGED <<files, written, out>>
    /\ UNCHANGED <<site, runs, test, pw, browser, page, url, hideEmpty, caught,
                   closeCalls, exitStatus, results>>

-----------------------------------------------------------------------------
(* verify_all_pages.main, the except and finally clauses.                  *)

\* except Exception as e: print(f"An error occurred: {e}")
ExceptPrint ==
    /\ script = "all_pages" /\ pc = "except"
    /\ caught' = exc
    /\ exc' = "none"
    /\ Say("error", exc)
    /\ pc' = "shot_error"
    /\ UNCHANGED <<site, runs, test, pw, browser, page, url, hideEmpty, ops, files,
                   written, closeCalls, exitStatus, results, observed>>

\* page.screenshot(path='.../error.png'), inside the except clause
ShotError ==
    /\ script = "all_pages" /\ pc = "shot_error"
    /\ \E ok \in Choices("shot_error") :
         IF ok THEN Returned("shot_error", "finally") /\ Write("error")
               ELSE Raised("shot_error") /\ UNCHANGED <<files, written>>
    /\ UNCHANGED <<site, runs, test, pw, browser, page, url, hideEmpty, out, caught,
                   closeCalls, exitStatus, results>>

\* finally: browser.close()
FinallyClose ==
    /\ script = "all_pages" /\ pc = "finally"
    /\ ops' = Append(ops, <<"close", "ok">>)
    /\ browser' = "closed"
    /\ page' = "none"
    /\ closeCalls' = closeCalls + 1
    /\ pc' = "exit_with"
    /\ UNCHANGED <<site, runs, test, pw, url, hideEmpty, out, files, written, exc,
                   caught, exitStatus, results, observed>>

-----------------------------------------------------------------------------
(* verify_diff_highlighting.main with run_verification, verify_escaping.run *)

\* escaping: page.set_viewport_size({"width": 1280, "height": 800})
SetViewport ==
    /\ script = "escaping" /\ pc = "set_viewport"
    /\ \E ok \in Choices("set_viewport") :
         IF ok THEN Returned("set_viewport", "goto_file") ELSE Raised("set_viewport")
    /\ UNCHANGED <<site, runs, test, pw, browser, page, url, hideEmpty, out, files,
                   written, caught, closeCalls, exitStatus, results>>

\* diff: page.goto(file_path)    escaping: page.goto(f"file://{file_path}")
GotoFile ==
    /\ script \in {"diff", "escaping"} /\ pc = "goto_file"
    /\ \E ok \in Choices("goto_file") :
         /\ Outcome(ok, TRUE, "goto_file")
         /\ IF ok THEN /\ Returned("goto_file", IF script = "diff" THEN "expect_list"
                                                ELSE "wait_load")
                       /\ url' = "vlaanderen"
                  ELSE Raised("goto_file") /\ UNCHANGED url
    /\ UNCHANGED <<site, runs, test, pw, browser, page, hideEmpty, out, files, written,
                   caught, closeCalls, exitStatus, results>>

\* diff: expect(page.locator(".report-list").first).to_be_visible()
ExpectList ==
    /\ script = "diff" /\ pc = "expect_list"
    /\ \E ok \in Choices("expect_list") :
         /\ Outcome(ok, TRUE, "expect_list")
         /\ IF ok THEN Returned("expect_list", "shot_file") ELSE Raised("expect_list")
    /\ UNCHANGED <<site, runs, test, pw, browser, page, url, hideEmpty, out, files,
                   written, caught, closeCalls, exitStatus, results>>

\* escaping: page.wait_for_load_state('networkidle')
WaitLoad ==
    /\ script = "escaping" /\ pc = "wait_load"
    /\ \E ok \in Choices("wait_load") :
         /\ Outcome(ok, TRUE, "wait_load")
         /\ IF ok THEN Returned("wait_load", "shot_file") ELSE Raised("wait_load")
    /\ UNCHANGED <<site, runs, test, pw, browser, page, url, hideEmpty, out, files,
                   written, caught, closeCalls, exitStatus, results>>

\* page.screenshot(path="jules-scratch/verification/verification.png")
ShotFile ==
    /\ script \in {"diff", "escaping"} /\ pc = "shot_file"
    /\ \E ok \in Choices("shot_file") :
         IF ok THEN Returned("shot_file", "close") /\ Write("verification")
               ELSE Raised("shot_file") /\ UNCHANGED <<files, written>>
    /\ UNCHANGED <<site, runs, test, pw, browser, page, url, hideEmpty, out, caught,
                   closeCalls, exitStatus, results>>

\* browser.close(), the last statement of the with block
Close ==
    /\ script \in {"diff", "escaping"} /\ pc = "close"
    /\ ops' = Append(ops, <<"close", "ok">>)
    /\ browser' = "closed"
    /\ page' = "none"
    /\ closeCalls' = closeCalls + 1
    /\ pc' = "exit_with"
    /\ UNCHANGED <<site, runs, test, pw, url, hideEmpty, out, files, written, exc,
                   caught, exitStatus, results, observed>>

\* What an invocation ended with: whether every step passed, the exit status
\* and the checkpoint files it wrote.
Ended(status) ==
    [status  |-> IF \E i \in DOMAIN ops : ops[i][2] = "raised" THEN "fail" ELSE "pass",
     exit    |-> status,
     written |-> written]

-----------------------------------------------------------------------------
(* The end of a script that owns its browser.                              *)

\* Leaving the with block, normally or with the exception that is propagating.
ExitWith ==
    /\ script \notin PytestScripts /\ pc = "exit_with"
    /\ pw' = "stopped"
    /\ pc' = "process_exit"
    /\ UNCHANGED <<site, runs, test, browser, page, url, hideEmpty, ops, out, files,
                   written, exc, caught, closeCalls, exitStatus, results, observed>>

\* asyncio.run(main()) / main() / run() returns or raises at module level:
\* the interpreter exits with 0, or with 1 after an uncaught exception.
ProcessExit ==
    /\ script \notin PytestScripts /\ pc = "process_exit"
    /\ exitStatus' = IF exc = "none" THEN 0 ELSE 1
    /\ past' = Append(past, Ended(exitStatus'))
    /\ pc' = "done"
    /\ UNCHANGED <<site, run, test, pw, browser, page, url, hideEmpty, ops, out, files,
                   written, exc, caught, closeCalls, results, observed>>

-----------------------------------------------------------------------------
(* verify_icons.test_report_page_with_icons                                *)

\* page.goto(f"file://{file_path}")
IconsGoto ==
    /\ script = "icons" /\ pc = "icons_goto"
    /\ \E ok \in Choices("icons_goto") :
         /\ Outcome(ok, TRUE, "icons_goto")
         /\ IF ok THEN Returned("icons_goto", "icons_expect_item") /\ url' = "vlaanderen"
                  ELSE Raised("icons_goto") /\ UNCHANGED url
    /\ UNCHANGED <<site, runs, test, pw, browser, page, hideEmpty, out, files, written,
                   caught, closeCalls, exitStatus, results>>

\* expect(page.locator(".report-list-item").first).to_be_visible()
IconsExpectItem ==
    /\ script = "icons" /\ pc = "icons_expect_item"
    /\ \E ok \in Choices("icons_expect_item") :
         /\ Outcome(ok, TRUE, "icons_expect_item")
         /\ IF ok THEN Returned("icons_expect_item", "icons_count")
                  ELSE Raised("icons_expect_item")
    /\ UNCHANGED <<site, runs, test, pw, browser, page, url, hideEmpty, out, files,
                   written, caught, closeCalls, exitStatus, results>>

\* if icon.count() > 0:
IconsCount ==
    /\ script = "icons" /\ pc = "icons_count"
    /\ Returned("icons_count", IF iconCount > 0 THEN "icons_expect_icon"
                               ELSE "icons_shot")
    /\ UNCHANGED <<site, runs, test, pw, browser, page, url, hideEmpty, out, files,
                   written, caught, closeCalls, exitStatus, results>>

\* expect(icon.first).to_be_visible()
IconsExpectIcon ==
    /\ script = "icons" /\ pc = "icons_expect_icon"
    /\ \E ok \in Choices("icons_expect_icon") :
         /\ Outcome(ok, iconCount > 0, "icons_expect_icon")
         /\ IF ok THEN Returned("icons_expect_icon", "icons_shot")
                  ELSE Raised("icons_expect_icon")
    /\ UNCHANGED <<site, runs, test, pw, browser, page, url, hideEmpty, out, files,
                   written, caught, closeCalls, exitStatus, results>>

\* page.screenshot(path="jules-scratch/verification/verification.png")
IconsShot ==
    /\ script = "icons" /\ pc = "icons_shot"
    /\ \E ok \in Choices("icons_shot") :
         IF ok THEN Returned("icons_shot", "test_end") /\ Write("verification")
               ELSE Raised("icons_shot") /\ UNCHANGED <<files, written>>
    /\ UNCHANGED <<site, runs, test, pw, browser, page, url, hideEmpty, out, caught,
                   closeCalls, exitStatus, results>>

-----------------------------------------------------------------------------
(* verify_layouts.test_country_page_layout and test_division_page_layout   *)

\* page.goto(f"file://{file_path}") with public/france.html
CountryGoto ==
    /\ script = "layouts" /\ pc = "country_goto"
    /\ \E ok \in Choices("country_goto") :
         /\ Outcome(ok, TRUE, "country_goto")
         /\ IF ok THEN Returned("country_goto", "country_expect") /\ url' = "france"
                  ELSE Raised("country_goto") /\ UNCHANGED url
    /\ UNCHANGED <<site, runs, test, pw, browser, page, hideEmpty, out, files, written,
                   caught, closeCalls, exitStatus, results>>

\* expect(page.locator(".list-item").first).to_be_visible()
CountryExpect ==
    /\ script = "layouts" /\ pc = "country_expect"
    /\ \E ok \in Choices("country_expect") :
         /\ Outcome(ok, TRUE, "country_expect")
         /\ IF ok THEN Returned("country_expect", "country_shot")
                  ELSE Raised("country_expect")
    /\ UNCHANGED <<site, runs, test, pw, browser, page, url, hideEmpty, out, files,
                   written, caught, closeCalls, exitStatus, results>>

\* page.screenshot(path="jules-scratch/verification/country_page.png")
CountryShot ==
    /\ script = "layouts" /\ pc = "country_shot"
    /\ \E ok \in Choices("country_shot") :
         IF ok THEN Returned("country_shot", "test_end") /\ Write("country_page")
               ELSE Raised("country_shot") /\ UNCHANGED <<files, written>>
    /\ UNCHANGED <<site, runs, test, pw, browser, page, url, hideEmpty, out, caught,
                   closeCalls, exitStatus, results>>

\* page.goto(f"file://{file_path}") with public/france/cantal.html
DivisionGoto ==
    /\ script = "layouts" /\ pc = "division_goto"
    /\ \E ok \in Choices("division_goto") :
         /\ Outcome(ok, TRUE, "division_goto")
         /\ IF ok THEN Returned("division_goto", "division_expect") /\ url' = "cantal"
                  ELSE Raised("division_goto") /\ UNCHANGED url
    /\ UNCHANGED <<site, runs, test, pw, browser, page, hideEmpty, out, files, written,
                   caught, closeCalls, exitStatus, results>>

\* expect(page.locator(".list-item").first).to_be_visible()
DivisionExpect ==
    /\ script = "layouts" /\ pc = "division_expect"
    /\ \E ok \in Choices("division_expect") :
         /\ Outcome(ok, TRUE, "division_expect")
         /\ IF ok THEN Returned("division_expect", "division_shot")
                  ELSE Raised("division_expect")
    /\ UNCHANGED <<site, runs, test, pw, browser, page, url, hideEmpty, out, files,
                   written, caught, closeCalls, exitStatus, results>>

\* page.screenshot(path="jules-scratch/verification/division_page.png")
DivisionShot ==
    /\ script = "layouts" /\ pc = "division_shot"
    /\ \E ok \in Choices("division_shot") :
         IF ok THEN Returned("division_shot", "test_end") /\ Write("division_page")
               ELSE Raised("division_shot") /\ UNCHANGED <<files, written>>
    /\ UNCHANGED <<site, runs, test, pw, browser, page, url, hideEmpty, out, caught,
                   closeCalls, exitStatus, results>>

-----------------------------------------------------------------------------
(* The test functions of a module are called one after another, each on    *)
(* its own: a test function that raises has failed, one that returns has   *)
(* passed, and the next function of the module is called either way.       *)

\* The test function defined after `t` in its module ("none" after the last).
NextTest(t) ==
    IF t = "test_country_page_layout" THEN "test_division_page_layout" ELSE "none"

FirstStep(t) ==
    IF t = "test_division_page_layout" THEN "division_goto" ELSE "session_end"

\* Where the run goes after test function `t` ended with exception `e`.
AfterTest(t, e) == FirstStep(NextTest(t))

\* A test function has returned or raised.
TestEnd ==
    /\ script \in PytestScripts /\ pc = "test_end"
    /\ results' = [results EXCEPT ![test] = IF exc = "none" THEN "pass" ELSE "fail"]
    /\ exc' = "none"
    /\ test' = NextTest(test)
    /\ pc' = AfterTest(test, exc)
    /\ UNCHANGED <<site, runs, pw, browser, page, url, hideEmpty, ops, out, files,
                   written, caught, closeCalls, exitStatus, observed>>

\* Every test function of the module has run: the status is 1 when one failed.
SessionEnd ==
    /\ script \in PytestScripts /\ pc = "session_end"
    /\ exitStatus' = IF \E t \in Tests : results[t] = "fail" THEN 1 ELSE 0
    /\ past' = Append(past, Ended(exitStatus'))
    /\ pc' = "done"
    /\ UNCHANGED <<site, run, test, pw, browser, page, url, hideEmpty, ops, out, files,
                   written, exc, caught, closeCalls, results, observed>>

-----------------------------------------------------------------------------

\* The script is invoked again against the unchanged site: a new process and
\* a new browser, the files of the earlier invocation still on disk.
RunAgain ==
    /\ pc = "done" /\ run < MaxRuns
    /\ run' = run + 1
    /\ pc' = StartPc(script)
    /\ test' = StartTest(script)
    /\ pw' = "none"
    /\ browser' = "none"
    /\ page' = IF script \in PytestScripts THEN "open" ELSE "none"
    /\ url' = "blank"
    /\ hideEmpty' = hideEmpty0
    /\ ops' = <<>>
    /\ out' = <<>>
    /\ written' = {}
    /\ exc' = "none"
    /\ caught' = "none"
    /\ closeCalls' = 0
    /\ exitStatus' = -1
    /\ results' = [t \in Tests |-> "none"]
    /\ UNCHANGED <<site, files, past, observed>>

Next ==
    \/ EnterWith \/ Launch \/ NewPage
    \/ GotoMain \/ ExpectMain \/ ShotMain
    \/ ClickFrance \/ WaitUrlFrance \/ ExpectCountry \/ ShotCountry
    \/ WaitHideEmpty \/ IsChecked \/ Uncheck \/ Settle
    \/ WaitLink \/ ClickCantal \/ WaitUrlCantal \/ ExpectReport \/ ShotReport
    \/ ExceptPrint \/ ShotError \/ FinallyClose
    \/ SetViewport \/ GotoFile \/ ExpectList \/ WaitLoad \/ ShotFile \/ Close
    \/ ExitWith \/ ProcessExit
    \/ IconsGoto \/ IconsExpectItem \/ IconsCount \/ IconsExpectIcon \/ IconsShot
    \/ CountryGoto \/ CountryExpect \/ CountryShot
    \/ DivisionGoto \/ DivisionExpect \/ DivisionShot
    \/ TestEnd \/ SessionEnd
    \/ RunAgain

Spec == Init /\ [][Next]_vars

\* Each script is one sequential flow of control that runs until it ends.
FairSpec == Spec /\ WF_vars(Next)

-----------------------------------------------------------------------------
(* Properties.                                                             *)

Has(op, res) == \E i \in DOMAIN ops : ops[i] = <<op, res>>

Attempted(op) == \E i \in DOMAIN ops : ops[i][1] = op

Printed(kind, text) == \E i \in DOMAIN out : out[i] = <<kind, text>>

OwnsBrowser == script \in {"all_pages", "diff", "escaping"}

\* A step raised while a browser was there (not the launch, not the error capture).
StepRaised ==
    \E i \in DOMAIN ops : ops[i][2] = "raised" /\ ops[i][1] \notin {"launch", "shot_error"}

\* The steps that wait for a readiness condition.
Waits == {"goto_main", "expect_main", "wait_url_france", "expect_country",
          "wait_hide_empty", "wait_link", "wait_url_cantal", "expect_report",
          "goto_file", "expect_list", "wait_load"}

WaitTimedOut == \E i \in DOMAIN ops : ops[i][1] \in Waits /\ ops[i][2] = "raised"

\* C1: in every run of a script entry point the browser that was launched is
\* closed exactly once before the run ends, whichever step raises.
C1_ClosedExactlyOnce ==
    /\ closeCalls <= 1
    /\ (OwnsBrowser /\ pc = "done" /\ Has("launch", "ok")) => closeCalls = 1

\* C2: in verify_all_pages.main, once a step of the try block has raised, the
\* error capture is the next session operation and no later step of the
\* scenario is executed; after a failed wait for the subdivision link the
\* Cantal click, the cantal.html wait, the report heading assertion and the
\* 03-report-page capture never happen.
C2_FailFast ==
    script = "all_pages" =>
        /\ \A i \in DOMAIN ops :
             (ops[i][1] \in TryBody /\ ops[i][2] = "raised") =>
                 /\ pc \notin TryBody
                 /\ \A j \in DOMAIN ops : j > i => ops[j][1] \notin TryBody
                 /\ Len(ops) > i => ops[i + 1][1] = "shot_error"
        /\ Has("wait_link", "raised") =>
             /\ ~Attempted("click_cantal")
             /\ ~Attempted("wait_url_cantal")
             /\ ~Attempted("expect_report")
             /\ ~Attempted("shot_report")
             /\ "03-report-page" \notin files

C2_Witness ==
    /\ script = "all_pages" /\ pc = "done"
    /\ Has("wait_link", "raised")
    /\ Attempted("shot_error")

\* C3: when a step has failed and the capture of the error checkpoint fails
\* too, the capture failure does not propagate out of the run: the run ends
\* with no exception propagating and the step failure as its logged reason.
C3_CaptureFailureContained ==
    (script = "all_pages" /\ pc = "done" /\ Has("shot_error", "raised")) =>
        /\ exc = "none"
        /\ Printed("error", caught)

\* C4: a run in which a scenario step failed ends with a nonzero exit status,
\* after the error screenshot was attempted and the failure was logged; a run
\* in which every step passed ends with exit status zero.
C4_ExitStatus ==
    (script = "all_pages" /\ pc = "done") =>
        /\ (\E s \in TryBody : Has(s, "raised")) =>
             /\ exitStatus # 0
             /\ Attempted("shot_error")
             /\ Printed("error", caught)
        /\ ~(\E i \in DOMAIN ops : ops[i][2] = "raised") => exitStatus = 0

\* C5: whenever any step of a run fails, in any script and at any step after
\* the browser was launched (page creation included), an error screenshot
\* capture is attempted before the run ends.
C5_ErrorCaptureOnAnyFailure ==
    (OwnsBrowser /\ pc = "done" /\ StepRaised) =>
        Attempted("shot_error")

\* C6: the normalization of #hide-empty leaves the control not checked once
\* it has completed, and when the control is absent from the page it is a
\* no-op that does not fail the scenario.
C6_NormalizationTotal ==
    script = "all_pages" =>
        /\ Attempted("wait_link") => hideEmpty # "checked"
        /\ hideEmpty = "absent" => ~Has("wait_hide_empty", "raised")

\* C7: when the France link or the Cantal link locator matches more than one
\* element, the click is not performed, the run reports the failure of that
\* step, and no later step of the scenario is executed.
C7_AmbiguousClickFails ==
    \A c \in {<<"click_france", franceMatches>>, <<"click_cantal", cantalMatches>>} :
        (script = "all_pages" /\ c[2] > 1) =>
            /\ ~Has(c[1], "ok")
            /\ \A i \in DOMAIN ops :
                 ops[i][1] = c[1] =>
                     /\ pc \notin TryBody
                     /\ \A j \in DOMAIN ops : j > i => ops[j][1] \notin TryBody
            /\ (Attempted(c[1]) /\ pc \notin {"except"}) => Printed("error", c[1])

C7_Witness ==
    /\ script = "all_pages" /\ pc = "done"
    /\ cantalMatches > 1
    /\ Has("click_cantal", "raised")
    /\ Printed("error", "click_cantal")

\* C8: every wait is bounded, so every run eventually terminates with its
\* session closed, also when a readiness condition is never satisfied and the
\* wait ends by timeout.
C8_TerminatesClosed ==
    <>(pc = "done" /\ ((OwnsBrowser /\ WaitTimedOut) => closeCalls = 1))

\* C9: no step proceeds past an unmet condition: the screenshot of
\* test_report_page_with_icons is taken only after the icon was verified, and
\* the step after a click of verify_all_pages.main starts only once the URL
\* pattern matched.
C9_NoSilentProceed ==
    /\ (script = "icons" /\ Attempted("icons_shot")) => Has("icons_expect_icon", "ok")
    /\ (script = "all_pages" /\ Attempted("expect_country")) => url \in {"france", "cantal"}
    /\ (script = "all_pages" /\ Attempted("expect_report")) => url = "cantal"

CountrySteps == {"country_goto", "country_expect", "country_shot"}

DivisionSteps == {"division_goto", "division_expect", "division_shot"}

C11_RerunSameResult ==
    /\ \A i \in DOMAIN past :
         /\ past[i].status = past[1].status
         /\ past[i].exit = past[1].exit
         /\ past[i].written = past[1].written
    /\ (pc = "done" /\ past # <<>>) => files = past[1].written

C11_Witness ==
    /\ script = "all_pages" /\ pc = "done"
    /\ Len(past) >= 2
    /\ past[2].status = "fail"
    /\ past[2].written = {"01-main-page", "02-country-page", "error"}

\* The click navigations of verify_all_pages.main:
\* <<click, URL wait, heading assertion, capture, checkpoint, destination>>.
Navigations ==
    {<<"click_france", "wait_url_france", "expect_country", "shot_country",
       "02-country-page", "france">>,
     <<"click_cantal", "wait_url_cantal", "expect_report", "shot_report",
       "03-report-page", "cantal">>}

\* C12: for each click navigation of verify_all_pages.main the order click,
\* URL wait, heading assertion, checkpoint capture is kept: the destination's
\* heading is asserted and its checkpoint captured only after the URL wait for
\* that destination completed successfully after the click in the same run,
\* and the wait completes only when the page went to the destination.
C12_ClickUrlHeadingCapture ==
    script = "all_pages" =>
        \A n \in Navigations :
            /\ \A k \in DOMAIN ops :
                 /\ ops[k][1] = n[3] =>
                        /\ k > 2
                        /\ ops[k - 1] = <<n[2], "ok">>
                        /\ ops[k - 2] = <<n[1], "ok">>
                 /\ ops[k][1] = n[4] => (k > 1 /\ ops[k - 1] = <<n[3], "ok">>)
            /\ n[5] \in written => Has(n[2], "ok")
            /\ Has(n[2], "ok") => <<n[6], "ok">> \in observed

C12_Witness ==
    /\ script = "all_pages" /\ pc = "done"
    /\ Has("shot_country", "ok")
    /\ Has("shot_report", "ok")

\* C13: the normalization step of verify_all_pages.main unchecks #hide-empty
\* and makes the settle wait only when the control is present and checked;
\* when the control is present and unchecked, no uncheck and no settle wait is
\* made and the control stays unchecked.
C13_UncheckOnlyWhenChecked ==
    script = "all_pages" =>
        /\ Attempted("uncheck") => hideEmpty0 = "checked"
        /\ Attempted("settle") => Has("uncheck", "ok")
        /\ hideEmpty0 = "unchecked" =>
             /\ hideEmpty = "unchecked"
             /\ ~Attempted("uncheck")
             /\ ~Attempted("settle")

C13_Witness ==
    /\ script = "all_pages"
    /\ hideEmpty0 = "unchecked"
    /\ Has("is_checked", "ok")
    /\ Has("wait_link", "ok")

\* C14: in every run of verify_all_pages.main each session operation is made
\* within the session's lifetime: the browser is launched once, the page is
\* created on the launched browser, and every navigation, wait, assertion and
\* screenshot (the error screenshot included) and the close are made while the
\* browser is launched, the page exists and browser.close was not yet called.
C14_UseWithinLifetime ==
    [][(script = "all_pages" /\ Len(ops') = Len(ops) + 1) =>
          LET op == ops'[Len(ops')][1]
          IN  /\ pw = "started"
              /\ op = "launch" => browser = "none"
              /\ op = "new_page" => (browser = "launched" /\ page = "none")
              /\ op \notin {"launch", "new_page"} =>
                     (browser = "launched" /\ page = "open" /\ closeCalls = 0)]_vars

C14_Witness ==
    /\ script = "all_pages" /\ pc = "done"
    /\ Has("shot_error", "ok")
    /\ closeCalls = 1
    /\ browser = "closed"

\* C15: in every run of verify_all_pages.main the checkpoints written form a
\* prefix of 01-main-page, 02-country-page, 03-report-page, each written only
\* after the heading assertion of its own page passed.
C15_CheckpointPrefix ==
    script = "all_pages" =>
        /\ written \ {"error"} \in
               {{}, {"01-main-page"}, {"01-main-page", "02-country-page"},
                {"01-main-page", "02-country-page", "03-report-page"}}
        /\ "01-main-page" \in written => Has("expect_main", "ok")
        /\ "02-country-page" \in written => Has("expect_country", "ok")
        /\ "03-report-page" \in written => Has("expect_report", "ok")

C15_Witness ==
    /\ script = "all_pages" /\ pc = "done"
    /\ written = {"01-main-page", "02-country-page", "error"}

Success == Printed("info", "All verification steps completed successfully.")

ErrorCaptures == Cardinality({i \in DOMAIN ops : ops[i][1] = "shot_error"})

\* C16: in every run of verify_all_pages.main that reaches the scenario body,
\* either success is reported, which happens only after the three checkpoints
\* were written and no step failed, or the error capture is attempted exactly
\* once; never both, and the error capture is never attempted in a run where
\* no step failed.
C16_SuccessXorErrorCapture ==
    script = "all_pages" =>
        /\ ErrorCaptures <= 1
        /\ ~(Success /\ ErrorCaptures > 0)
        /\ Success =>
             /\ {"01-main-page", "02-country-page", "03-report-page"} \subseteq written
             /\ ~(\E s \in TryBody : Has(s, "raised"))
        /\ ErrorCaptures > 0 => \E s \in TryBody : Has(s, "raised")
        /\ (pc = "done" /\ Attempted("goto_main")) => (Success \/ ErrorCaptures = 1)

C16_Witness ==
    /\ script = "all_pages" /\ pc = "done"
    /\ Success
    /\ ErrorCaptures = 0
    /\ exitStatus = 0

====
